---- MODULE Spec2Model ----
(***************************************************************************)
(* A model of zeep.xsd.indicators: the compositor nodes Sequence, Choice,  *)
(* All and Group, their name views, accept(), keyword binding, XML parsing,*)
(* rendering and reference resolution.                                     *)
(*                                                                         *)
(* A schema node is a record [kind, name, min_occurs, max_occurs,          *)
(* children]; a Group holds its child as children[1]; a Ref holds its      *)
(* registry key as name.  An XML element is a record [tag, val], val the   *)
(* value its content parses to.  Python values are tagged records so that  *)
(* values of different shapes can be compared: PyNone, Leaf(v),            *)
(* List(<<...>>), Dict(function).                                          *)
(***************************************************************************)
EXTENDS Integers, Sequences, FiniteSets, TLC

VARIABLES node, xmlelements, permuted, kwargs, bound, result, pc, occ, input0

vars == <<node, xmlelements, permuted, kwargs, result, pc, occ, input0, bound>>

(***************************************************************************)
(* Bounds of the model.                                                    *)
(***************************************************************************)
MaxChildren == 2
MaxLen == 4
MaxAllLen == 3
MaxResolves == 2
MaxItems == 2
MaxIter == 6

(***************************************************************************)
(* Values.                                                                 *)
(***************************************************************************)
PyNone == [t |-> "none"]
Leaf(v) == [t |-> "leaf", v |-> v]
List(l) == [t |-> "list", l |-> l]
Dict(d) == [t |-> "dict", d |-> d]

EmptyMap == [k \in {} |-> PyNone]
Single(k, v) == [x \in {k} |-> v]
\* dict.update: the entries of b override those of a
Update(a, b) == [k \in DOMAIN a \cup DOMAIN b |-> IF k \in DOMAIN b THEN b[k] ELSE a[k]]

\* The name None of an unnamed entry of the nested view
NoName == "<None>"

SeqsUpTo(S, n) == UNION {[1..m -> S] : m \in 0..n}
NonEmptySeqsUpTo(S, n) == UNION {[1..m -> S] : m \in 1..n}
Range(s) == {s[j] : j \in DOMAIN s}

(***************************************************************************)
(* Schema nodes.                                                           *)
(***************************************************************************)
Unbounded == 0 - 1

Node(kind, name, children, min_occurs, max_occurs) ==
    [kind |-> kind, name |-> name, children |-> children,
     min_occurs |-> min_occurs, max_occurs |-> max_occurs]
Element(name, min_occurs, max_occurs) == Node("Element", name, <<>>, min_occurs, max_occurs)
AnyElement(min_occurs, max_occurs) == Node("Any", NoName, <<>>, min_occurs, max_occurs)
Sequence(elms, min_occurs, max_occurs) == Node("Sequence", NoName, elms, min_occurs, max_occurs)
Choice(elms, min_occurs, max_occurs) == Node("Choice", NoName, elms, min_occurs, max_occurs)
All(elms, min_occurs, max_occurs) == Node("All", NoName, elms, min_occurs, max_occurs)
Group(name, child, min_occurs, max_occurs) == Node("Group", name, <<child>>, min_occurs, max_occurs)
RefElement(key) == Node("Ref", key, <<>>, 1, 1)

\* isinstance(elm, Indicator): Group derives from Base only
IsIndicator(elm) == elm.kind \in {"Sequence", "Choice", "All"}

accepts_multiple(elm) == elm.max_occurs = Unbounded \/ elm.max_occurs > 1

is_optional(elm) == IF elm.kind = "Choice" THEN TRUE ELSE elm.min_occurs = 0

\* UniqueAttributeName.get_name after the counter was raised to num
get_name(num) == "_value_" \o ToString(num)

(***************************************************************************)
(* The name views.                                                         *)
(***************************************************************************)
RECURSIVE nested_from(_, _)
nested_from(elms, num) ==
    IF elms = <<>> THEN <<>>
    ELSE LET elm == Head(elms) IN
         IF elm.kind \in {"All", "Group", "Sequence"}
         THEN IF accepts_multiple(elm)
              THEN <<[name |-> get_name(num + 1), elm |-> elm]>> \o nested_from(Tail(elms), num + 1)
              ELSE <<[name |-> NoName, elm |-> elm]>> \o nested_from(Tail(elms), num)
         ELSE IF elm.kind \in {"Any", "Choice"}
         THEN <<[name |-> get_name(num + 1), elm |-> elm]>> \o nested_from(Tail(elms), num + 1)
         ELSE <<[name |-> elm.name, elm |-> elm]>> \o nested_from(Tail(elms), num)

elements_nested(self) == nested_from(self.children, 0)

RECURSIVE elements(_)
RECURSIVE flatten(_)
flatten(pairs) ==
    IF pairs = <<>> THEN <<>>
    ELSE IF Head(pairs).name = NoName
         THEN elements(Head(pairs).elm) \o flatten(Tail(pairs))
         ELSE <<Head(pairs)>> \o flatten(Tail(pairs))

elements(self) ==
    IF self.kind = "Group"
    THEN IF accepts_multiple(self)
         THEN <<[name |-> "_value_1", elm |-> self.children[1]]>>
         ELSE elements(self.children[1])
    ELSE flatten(elements_nested(self))

Names(pairs) == {pairs[j].name : j \in DOMAIN pairs}

(***************************************************************************)
(* accept(values): values is a mapping; only its keys are read.            *)
(***************************************************************************)
accept_mut(self, values) ==
    LET required_keys == {p.name : p \in {q \in Range(elements(self)) : ~is_optional(q.elm)}}
        optional_keys == {p.name : p \in {q \in Range(elements(self)) : is_optional(q.elm)}}
        values_keys == DOMAIN values
    IN  values_keys \subseteq (required_keys \cup optional_keys)
        /\ required_keys \subseteq values_keys

accept(self, values) ==
    LET required_keys == {p.name : p \in {q \in Range(elements(self)) : ~is_optional(q.elm)}}
        optional_keys == {p.name : p \in {q \in Range(elements(self)) : is_optional(q.elm)}}
        values_keys == DOMAIN values \ {"_xsd_elm"}
    IN  values_keys \subseteq (required_keys \cup optional_keys)
        /\ required_keys \subseteq values_keys

(***************************************************************************)
(* Specification of the name views and accept().                           *)
(***************************************************************************)
ViewLeaves == {Element("a", 1, 1), Element("b", 0, 1), AnyElement(1, 1)}

ViewInner ==
    {Sequence(<<Element("c", 1, 1)>>, 1, 1),
     Sequence(<<Element("c", 1, 1), Element("d", 0, 1)>>, 0, 1),
     Sequence(<<Element("c", 1, 1)>>, 1, 2),
     Sequence(<<AnyElement(0, 1)>>, 1, 1),
     Sequence(<<Choice(<<Element("c", 1, 1)>>, 1, 1), Element("d", 1, 1)>>, 1, 1),
     All(<<Element("c", 0, 1)>>, 1, 1),
     Choice(<<Element("c", 1, 1), Element("d", 1, 1)>>, 1, 1),
     Choice(<<Element("c", 1, 1)>>, 1, Unbounded),
     Group("g", Sequence(<<Element("c", 1, 1)>>, 1, 1), 1, 1),
     Group("g", Sequence(<<Element("c", 1, 1)>>, 1, 1), 1, 2)}

ViewTops ==
    LET bodies == SeqsUpTo(ViewLeaves \cup ViewInner, MaxChildren)
    IN  {Sequence(b, 1, 1) : b \in bodies}
        \cup {Group("top", Sequence(b, 1, 1), 1, m) : b \in SeqsUpTo(ViewLeaves, MaxChildren), m \in {1, 2}}

ViewKeys == {"a", "b", "c", "_value_1", "_xsd_elm"}

ViewValues == UNION {[K -> {Leaf(1)}] : K \in SUBSET ViewKeys}

InitView ==
    /\ node \in ViewTops
    /\ xmlelements = <<>>
    /\ permuted = <<>>
    /\ kwargs = EmptyMap
    /\ result = PyNone
    /\ pc = "start"
    /\ occ = 0
    /\ bound = PyNone
    /\ input0 = <<>>

\* reading the memoized property elements
ReadElements ==
    /\ pc = "start"
    /\ pc' = "elements"
    /\ result' = elements(node)
    /\ UNCHANGED <<node, xmlelements, permuted, kwargs, occ, input0, bound>>

\* a call accept(values)
CallAccept ==
    /\ pc = "start"
    /\ \E values \in ViewValues :
          /\ kwargs' = values
          /\ result' = accept(node, values)
    /\ pc' = "accept"
    /\ UNCHANGED <<node, xmlelements, permuted, occ, input0, bound>>

NextView == ReadElements \/ CallAccept

SpecView == InitView /\ [][NextView]_vars

\* C7: accept(values) is true exactly when, '_xsd_elm' aside, every
\* non-optional slot name of the flattened view is a key of values and every
\* key of values is a slot name of the flattened view.
C7_AcceptIff ==
    pc = "accept" =>
        LET keys == DOMAIN kwargs \ {"_xsd_elm"}
            slots == elements(node)
        IN  result <=>
               /\ \A j \in DOMAIN slots : ~is_optional(slots[j].elm) => slots[j].name \in keys
               /\ \A k \in keys : \E j \in DOMAIN slots : slots[j].name = k

\* a Sequence(a required, b optional) accepted {a} given with the reserved
\* key '_xsd_elm'
C7_Witness ==
    /\ pc = "accept"
    /\ node = Sequence(<<Element("a", 1, 1), Element("b", 0, 1)>>, 1, 1)
    /\ DOMAIN kwargs = {"a", "_xsd_elm"}
    /\ result = TRUE

RECURSIVE LeafNames(_)
RECURSIVE LeafNamesOf(_)
LeafNamesOf(elms) == IF elms = <<>> THEN <<>> ELSE LeafNames(Head(elms)) \o LeafNamesOf(Tail(elms))
LeafNames(elm) == IF elm.kind = "Element" THEN <<elm.name>>
                  ELSE LeafNamesOf(elm.children)

Distinct(s) == \A j, k \in DOMAIN s : j # k => s[j] # s[k]

\* C10: when the leaf elements of the tree have pairwise distinct declared
\* names, the names of the flattened view are pairwise distinct and none is
\* None.
C10_FlatNamesDistinct ==
    (pc = "elements" /\ Distinct(LeafNames(node))) =>
        /\ Distinct([j \in DOMAIN result |-> result[j].name])
        /\ \A j \in DOMAIN result : result[j].name # NoName

(***************************************************************************)
(* XML parsing.  Every parse operator returns [value, rest]: the parsed    *)
(* value and the input list as the call leaves it.  The occurrence loop of *)
(* a nested node is run to its end by the pure operators below, so nested  *)
(* nodes have a bounded max_occurs; the occurrence loop of the node under  *)
(* test is run one iteration per step by the actions further down.         *)
(***************************************************************************)
Xml(tag, val) == [tag |-> tag, val |-> val]

\* Element.parse_xmlelements: consume the leading elements whose tag is the
\* element's, at most max_occurs of them
RECURSIVE MatchingPrefix(_, _, _)
MatchingPrefix(elm, xs, limit) ==
    IF limit = 0 \/ xs = <<>> \/ Head(xs).tag # elm.name THEN 0
    ELSE 1 + MatchingPrefix(elm, Tail(xs), limit - 1)

Element_parse_xmlelements(elm, xs) ==
    LET limit == IF elm.max_occurs = Unbounded THEN Len(xs) ELSE elm.max_occurs
        k == MatchingPrefix(elm, xs, limit)
        vals == [j \in 1..k |-> xs[j].val]
    IN  [value |-> IF accepts_multiple(elm) THEN List(vals)
                   ELSE IF k > 0 THEN vals[1] ELSE PyNone,
         rest |-> SubSeq(xs, k + 1, Len(xs))]

RECURSIVE parse_xmlelements(_, _, _)

\* One occurrence of a Sequence: the body of the loop over max_occurs_iter
RECURSIVE sequence_members(_, _, _)
sequence_members(pairs, xs, item_result) ==
    IF pairs = <<>> THEN [value |-> Dict(item_result), rest |-> xs]
    ELSE LET r == parse_xmlelements(Head(pairs).elm, xs, NoName)
             item == Update(item_result, Single(Head(pairs).name, r.value))
         IN  IF r.rest = <<>> THEN [value |-> Dict(item), rest |-> r.rest]
             ELSE sequence_members(Tail(pairs), r.rest, item)

Sequence_occurrence(self, xs) == sequence_members(elements(self), xs, EmptyMap)

Sequence_return(self, items, name) ==
    IF ~accepts_multiple(self)
    THEN IF items # <<>> THEN items[1] ELSE PyNone
    ELSE Dict(Single(name, List(items)))

\* The options of one Choice selection, in declaration order: the members
\* that consume at least one element of a copy of the input
RECURSIVE choice_options(_, _)
choice_options(pairs, xs) ==
    IF pairs = <<>> THEN <<>>
    ELSE LET name == Head(pairs).name
             element == Head(pairs).elm
             r == parse_xmlelements(element, xs, NoName)
             sub_result == IF IsIndicator(element)
                           THEN IF accepts_multiple(element)
                                THEN Dict(Single(name, r.value))
                                ELSE r.value
                           ELSE Dict(Single(name, r.value))
             num_consumed == Len(xs) - Len(r.rest)
         IN  (IF num_consumed # 0
              THEN <<[num_consumed |-> num_consumed, sub_result |-> sub_result]>>
              ELSE <<>>) \o choice_options(Tail(pairs), xs)

\* sorted(options, key=itemgetter(0)): stable, ascending
RECURSIVE insert_sorted(_, _)
insert_sorted(sorted, o) ==
    IF sorted = <<>> THEN <<o>>
    ELSE IF sorted[Len(sorted)].num_consumed <= o.num_consumed THEN Append(sorted, o)
    ELSE Append(insert_sorted(SubSeq(sorted, 1, Len(sorted) - 1), o), sorted[Len(sorted)])

RECURSIVE sorted_options(_)
sorted_options(options) ==
    IF options = <<>> THEN <<>>
    ELSE insert_sorted(sorted_options(SubSeq(options, 1, Len(options) - 1)), options[Len(options)])

Reverse(s) == [j \in 1..Len(s) |-> s[Len(s) + 1 - j]]

\* options = sorted(options, key=operator.itemgetter(0))[::-1]
order_options(options) == Reverse(sorted_options(options))

\* One occurrence of a Choice: the loop `for node in list(xmlelements)`,
\* with `left` nodes of the snapshot still to visit
RECURSIVE choice_nodes(_, _, _, _)
choice_nodes(self, xs, left, items) ==
    IF left = 0 THEN [items |-> items, rest |-> xs]
    ELSE LET options == order_options(choice_options(elements_nested(self), xs))
         IN  IF options # <<>>
             THEN choice_nodes(self, SubSeq(xs, options[1].num_consumed + 1, Len(xs)),
                               left - 1, Append(items, options[1].sub_result))
             ELSE [items |-> items, rest |-> xs]

Choice_occurrence(self, xs, items) == choice_nodes(self, xs, Len(xs), items)

Choice_return(self, items) ==
    IF ~accepts_multiple(self)
    THEN IF items # <<>> THEN items[1] ELSE PyNone
    ELSE List(items)

Group_occurrence(self, xs, name) == parse_xmlelements(self.children[1], xs, name)

Group_return(self, items, name) ==
    IF ~accepts_multiple(self) /\ items # <<>> THEN items[1]
    ELSE Dict(Single(name, List(items)))

\* All.parse_xmlelements: bucket by tag, then each member parses its bucket
Bucket(xs, tag) == SelectSeq(xs, LAMBDA e : e.tag = tag)

RECURSIVE all_members_mut(_, _, _)
all_members_mut(pairs, xs, result_) ==
    IF pairs = <<>> THEN result_
    ELSE LET r == parse_xmlelements(Head(pairs).elm, xs, NoName)
         IN  all_members_mut(Tail(pairs), r.rest,
                 IF Len(r.rest) < Len(xs)
                 THEN Update(result_, Single(Head(pairs).name, r.value))
                 ELSE result_)

RECURSIVE all_members(_, _, _)
all_members(pairs, xs, result_) ==
    IF pairs = <<>> THEN result_
    ELSE LET sub_elements == Bucket(xs, Head(pairs).elm.name)
         IN  all_members(Tail(pairs), xs,
                 IF sub_elements # <<>>
                 THEN Update(result_, Single(Head(pairs).name,
                          parse_xmlelements(Head(pairs).elm, sub_elements, NoName).value))
                 ELSE result_)

All_parse_xmlelements(self, xs) == Dict(all_members(elements(self), xs, EmptyMap))

\* The occurrence loops run to their end: `left` iterations remain
RECURSIVE sequence_loop(_, _, _, _)
sequence_loop(self, xs, left, items) ==
    IF left <= 0 THEN [items |-> items, rest |-> xs]
    ELSE LET r == Sequence_occurrence(self, xs)
         IN  sequence_loop(self, r.rest, left - 1, Append(items, r.value))

RECURSIVE choice_loop(_, _, _, _)
choice_loop(self, xs, left, items) ==
    IF left <= 0 THEN [items |-> items, rest |-> xs]
    ELSE LET r == Choice_occurrence(self, xs, items)
         IN  choice_loop(self, r.rest, left - 1, r.items)

RECURSIVE group_loop(_, _, _, _, _)
group_loop(self, xs, name, left, items) ==
    IF left <= 0 THEN [items |-> items, rest |-> xs]
    ELSE LET r == Group_occurrence(self, xs, name)
         IN  group_loop(self, r.rest, name, left - 1, Append(items, r.value))

parse_xmlelements(self, xs, name) ==
    CASE self.kind = "Element" -> Element_parse_xmlelements(self, xs)
      [] self.kind = "Sequence" ->
            LET r == sequence_loop(self, xs, self.max_occurs, <<>>)
            IN  [value |-> Sequence_return(self, r.items, name), rest |-> r.rest]
      [] self.kind = "Choice" ->
            LET r == choice_loop(self, xs, self.max_occurs, <<>>)
            IN  [value |-> Choice_return(self, r.items), rest |-> r.rest]
      [] self.kind = "Group" ->
            LET r == group_loop(self, xs, name, self.max_occurs, <<>>)
            IN  [value |-> Group_return(self, r.items, name), rest |-> r.rest]
      [] self.kind = "All" ->
            \* All reads the list and pops nothing from it
            [value |-> All_parse_xmlelements(self, xs), rest |-> xs]

(***************************************************************************)
(* Specification of parse_xmlelements on a Sequence, Choice or Group: one  *)
(* step per iteration of the loop over max_occurs_iter(self.max_occurs).   *)
(* result holds the list built so far, occ the iterations made; input0 is  *)
(* the caller's list before the call.                                      *)
(***************************************************************************)
ElmX == Element("x", 1, 1)
ElmY == Element("y", 1, 1)

ParseMembers ==
    {ElmX, ElmY,
     Element("x", 0, 2),
     Sequence(<<ElmX, ElmY>>, 1, 1),
     Sequence(<<ElmX>>, 1, 2),
     Choice(<<ElmX, ElmY>>, 1, 1)}

ParseOccurs == {1, 2, Unbounded}

ParseTops ==
    LET bodies == NonEmptySeqsUpTo(ParseMembers, MaxChildren)
    IN  {Sequence(b, 1, m) : b \in bodies, m \in ParseOccurs}
        \cup {Choice(b, 1, m) : b \in bodies, m \in ParseOccurs}
        \cup {Group("g", Sequence(<<b>>, 1, 1), 1, m) : b \in ParseMembers, m \in ParseOccurs}

XmlElems == {Xml("x", Leaf(1)), Xml("y", Leaf(2)), Xml("z", Leaf(3))}

\* the name the caller passes: a node that accepts multiple is given one
TopName(self) == IF accepts_multiple(self) THEN "_value_1" ELSE NoName

\* max_occurs_iter(max_occurs) yields another index after occ of them
HasNext(self, n) == self.max_occurs = Unbounded \/ n < self.max_occurs

InitParse ==
    /\ node \in ParseTops
    /\ xmlelements \in SeqsUpTo(XmlElems, MaxLen)
    /\ input0 = xmlelements
    /\ permuted = <<>>
    /\ kwargs = EmptyMap
    /\ result = <<>>
    /\ pc = "loop"
    /\ occ = 0
    /\ bound = PyNone

SequenceOccurrence ==
    /\ pc = "loop" /\ node.kind = "Sequence"
    /\ HasNext(node, occ) /\ occ < MaxIter
    /\ LET r == Sequence_occurrence(node, xmlelements)
       IN  /\ result' = Append(result, r.value)
           /\ xmlelements' = r.rest
    /\ occ' = occ + 1
    /\ UNCHANGED <<node, permuted, kwargs, pc, input0, bound>>

SequenceReturn ==
    /\ pc = "loop" /\ node.kind = "Sequence"
    /\ ~HasNext(node, occ)
    /\ result' = Sequence_return(node, result, TopName(node))
    /\ pc' = "returned"
    /\ UNCHANGED <<node, xmlelements, permuted, kwargs, occ, input0, bound>>

ChoiceOccurrence ==
    /\ pc = "loop" /\ node.kind = "Choice"
    /\ HasNext(node, occ) /\ occ < MaxIter
    /\ LET r == Choice_occurrence(node, xmlelements, result)
       IN  /\ result' = r.items
           /\ xmlelements' = r.rest
    /\ occ' = occ + 1
    /\ UNCHANGED <<node, permuted, kwargs, pc, input0, bound>>

ChoiceReturn ==
    /\ pc = "loop" /\ node.kind = "Choice"
    /\ ~HasNext(node, occ)
    /\ result' = Choice_return(node, result)
    /\ pc' = "returned"
    /\ UNCHANGED <<node, xmlelements, permuted, kwargs, occ, input0, bound>>

GroupOccurrence ==
    /\ pc = "loop" /\ node.kind = "Group"
    /\ HasNext(node, occ) /\ occ < MaxIter
    /\ LET r == Group_occurrence(node, xmlelements, TopName(node))
       IN  /\ result' = Append(result, r.value)
           /\ xmlelements' = r.rest
    /\ occ' = occ + 1
    /\ UNCHANGED <<node, permuted, kwargs, pc, input0, bound>>

GroupReturn ==
    /\ pc = "loop" /\ node.kind = "Group"
    /\ ~HasNext(node, occ)
    /\ result' = Group_return(node, result, TopName(node))
    /\ pc' = "returned"
    /\ UNCHANGED <<node, xmlelements, permuted, kwargs, occ, input0, bound>>

NextParse ==
    \/ SequenceOccurrence \/ SequenceReturn
    \/ ChoiceOccurrence \/ ChoiceReturn
    \/ GroupOccurrence \/ GroupReturn

SpecParse == InitParse /\ [][NextParse]_vars

\* The options of the first selection on the caller's input, as declared
FirstOptions == choice_options(elements_nested(node), input0)

Greatest(options) ==
    CHOOSE n \in {options[j].num_consumed : j \in DOMAIN options} :
        \A j \in DOMAIN options : options[j].num_consumed <= n

FirstDeclaredGreatest(options) ==
    options[CHOOSE j \in DOMAIN options :
               /\ options[j].num_consumed = Greatest(options)
               /\ \A k \in DOMAIN options :
                     options[k].num_consumed = Greatest(options) => j <= k]

\* C1: the result recorded by a Choice selection is that of the member that
\* consumes the greatest number of leading elements of a copy of the input,
\* and of the first-declared such member when several consume that number.
C1_GreedyFirstDeclared ==
    (node.kind = "Choice" /\ pc = "loop" /\ result # <<>>) =>
        result[1] = FirstDeclaredGreatest(FirstOptions).sub_result

\* C2: with an unbounded max_occurs the occurrence loop stops once the input
\* is exhausted or an occurrence consumes nothing: an occurrence that is not
\* the last consumes an element, so the loop makes at most one iteration more
\* than the input has elements.
C2_UnboundedLoopStops ==
    node.max_occurs = Unbounded => occ <= Len(input0) + 1

RECURSIVE Repeat(_, _)
Repeat(s, k) == IF k = 0 THEN <<>> ELSE s \o Repeat(s, k - 1)

\* C3: a Sequence of the single-occurrence leaves x, y with max_occurs N >= 2
\* or unbounded, given k <= N complete repetitions x, y, returns exactly k
\* records, each holding x and y, and leaves no input.
C3_ExactlyKRecords ==
    \A k \in 1..(MaxLen \div 2) :
        (/\ pc = "returned"
         /\ node.kind = "Sequence" /\ node.children = <<ElmX, ElmY>>
         /\ accepts_multiple(node)
         /\ HasNext(node, k - 1)
         /\ input0 = Repeat(<<Xml("x", Leaf(1)), Xml("y", Leaf(2))>>, k))
        => /\ xmlelements = <<>>
           /\ result = Dict(Single("_value_1",
                  List([j \in 1..k |-> Dict([n \in {"x", "y"} |->
                                               IF n = "x" THEN Leaf(1) ELSE Leaf(2)])])))

\* C9: a Choice commits at most one selection per occurrence slot, so at
\* most max_occurs selections; with max_occurs = 1 only the elements the one
\* selected member consumed are removed from the input.
C9_OneSelectionPerOccurrence ==
    (node.kind = "Choice" /\ node.max_occurs # Unbounded) =>
        /\ pc = "loop" => Len(result) <= occ
        /\ (pc = "returned" /\ node.max_occurs = 1 /\ FirstOptions # <<>>) =>
              Len(input0) - Len(xmlelements) = Greatest(FirstOptions)

(***************************************************************************)
(* Specification of All.parse_xmlelements on two orderings of one input.   *)
(***************************************************************************)
AllMembers == {Element("x", 1, 1), Element("x", 0, Unbounded), Element("y", 0, 1)}

AllTops == {All(b, 1, 1) : b \in NonEmptySeqsUpTo(AllMembers, MaxChildren)}

AllXml == {Xml("x", Leaf(1)), Xml("x", Leaf(2)), Xml("y", Leaf(1)), Xml("z", Leaf(1))}

Orderings(n) == {f \in [1..n -> 1..n] : \A j, k \in 1..n : f[j] = f[k] => j = k}

InitAll ==
    /\ node \in AllTops
    /\ xmlelements \in SeqsUpTo(AllXml, MaxAllLen)
    /\ permuted \in {[j \in 1..Len(xmlelements) |-> xmlelements[f[j]]] :
                        f \in Orderings(Len(xmlelements))}
    /\ input0 = xmlelements
    /\ kwargs = EmptyMap
    /\ result = <<>>
    /\ pc = "start"
    /\ occ = 0
    /\ bound = PyNone

\* parse_xmlelements is called on each of the two lists
AllParseBoth ==
    /\ pc = "start"
    /\ result' = <<All_parse_xmlelements(node, xmlelements),
                   All_parse_xmlelements(node, permuted)>>
    /\ pc' = "parsed"
    /\ UNCHANGED <<node, xmlelements, permuted, kwargs, occ, input0, bound>>

NextAll == AllParseBoth

SpecAll == InitAll /\ [][NextAll]_vars

\* C4 as stated: any two orderings of one multiset of elements, several of
\* which may share a tag, parse to the same mapping.
C4_AnyPermutation ==
    pc = "parsed" => result[1] = result[2]

Tags(xs) == {xs[j].tag : j \in DOMAIN xs}
WithTag(xs, t) == SelectSeq(xs, LAMBDA e : e.tag = t)
SameOrderWithinTags(xs, ys) == \A t \in Tags(xs) \cup Tags(ys) : WithTag(xs, t) = WithTag(ys, t)
MemberTags(self) == {self.children[j].name : j \in DOMAIN self.children}
Matching(self, xs) == SelectSeq(xs, LAMBDA e : e.tag \in MemberTags(self))

\* C4 amended: two orderings of one multiset of elements in which the
\* elements sharing a tag keep their relative order parse to the same
\* mapping, and the elements whose tag matches no member change nothing:
\* the mapping has member names only and is that of the matching elements.
C4_OrderWithinTagsKept ==
    (pc = "parsed" /\ SameOrderWithinTags(xmlelements, permuted)) =>
        /\ result[1] = result[2]
        /\ DOMAIN result[1].d \subseteq MemberTags(node)
        /\ result[1] = All_parse_xmlelements(node, Matching(node, xmlelements))

\* two different orderings with two x of different content kept in order,
\* and an element matching no member
C4_Witness ==
    /\ pc = "parsed"
    /\ xmlelements = <<Xml("x", Leaf(1)), Xml("z", Leaf(1)), Xml("x", Leaf(2))>>
    /\ permuted = <<Xml("z", Leaf(1)), Xml("x", Leaf(1)), Xml("x", Leaf(2))>>
    /\ node = All(<<Element("x", 0, Unbounded), Element("y", 0, 1)>>, 1, 1)
    /\ result[1] = Dict(Single("x", List(<<Leaf(1), Leaf(2)>>)))

(***************************************************************************)
(* Reference resolution.  The registry maps the key of a Ref to its        *)
(* target node.                                                            *)
(***************************************************************************)
Registry(key) == Element(key, 1, 1)

\* RefElement.resolve
Ref_resolve(elm) == Registry(elm.name)

\* Indicator.resolve: the children that are Refs are replaced, in place
Indicator_resolve(self) ==
    [self EXCEPT !.children =
        [j \in DOMAIN self.children |->
            IF self.children[j].kind = "Ref" THEN Ref_resolve(self.children[j])
            ELSE self.children[j]]]

\* Group.resolve
Group_resolve(self) == [self EXCEPT !.children = <<Indicator_resolve(self.children[1])>>]

ResolvePool ==
    {RefElement("a"), RefElement("b"), Element("c", 1, 1),
     Sequence(<<RefElement("a")>>, 1, 1),
     Choice(<<RefElement("b"), Element("c", 1, 1)>>, 1, 1),
     All(<<Element("c", 1, 1)>>, 1, 1),
     Group("g", Sequence(<<RefElement("a")>>, 1, 1), 1, 1)}

ResolveTops ==
    LET bodies == SeqsUpTo(ResolvePool, MaxChildren)
    IN  {Sequence(b, 1, 1) : b \in bodies}
        \cup {Choice(b, 1, 1) : b \in bodies}
        \cup {Group("top", Sequence(b, 1, 1), 1, 1) : b \in bodies}

InitResolve ==
    /\ node \in ResolveTops
    /\ xmlelements = <<>>
    /\ permuted = <<>>
    /\ input0 = <<>>
    /\ kwargs = EmptyMap
    /\ result = PyNone
    /\ pc = "start"
    /\ occ = 0
    /\ bound = PyNone

\* a call of resolve() on the tree; result keeps the tree as it was before
\* the call, occ counts the calls
IndicatorResolve ==
    /\ IsIndicator(node) /\ occ < MaxResolves
    /\ result' = node
    /\ node' = Indicator_resolve(node)
    /\ occ' = occ + 1
    /\ pc' = "resolved"
    /\ UNCHANGED <<xmlelements, permuted, kwargs, input0, bound>>

GroupResolve ==
    /\ node.kind = "Group" /\ occ < MaxResolves
    /\ result' = node
    /\ node' = Group_resolve(node)
    /\ occ' = occ + 1
    /\ pc' = "resolved"
    /\ UNCHANGED <<xmlelements, permuted, kwargs, input0, bound>>

NextResolve == IndicatorResolve \/ GroupResolve

SpecResolve == InitResolve /\ [][NextResolve]_vars

RECURSIVE HasRef(_)
HasRef(elm) == elm.kind = "Ref" \/ \E j \in DOMAIN elm.children : HasRef(elm.children[j])

\* C6: after resolve() returned, no Ref is left anywhere in the subtree,
\* whatever its depth, and a further resolve() changes nothing.
C6_ResolvedAtAnyDepth ==
    pc = "resolved" =>
        /\ ~HasRef(node)
        /\ occ >= 2 => node = result

(***************************************************************************)
(* Keyword binding.  kwargs is the mapping itself (a function from keys to *)
(* values); a parse_kwargs operator returns [result, kwargs]: the bound    *)
(* value and the mapping as the call leaves it (the leaves pop the keys    *)
(* they bind from the mapping they are given).                             *)
(***************************************************************************)
Without(d, k) == [x \in DOMAIN d \ {k} |-> d[x]]

\* Element.parse_kwargs: the key is popped when present
Element_parse_kwargs(elm, kw, name) ==
    LET key == IF name # NoName THEN name ELSE elm.name
    IN  IF key \in DOMAIN kw
        THEN [result |-> Dict(Single(key, kw[key])), kwargs |-> Without(kw, key)]
        ELSE [result |-> Dict(EmptyMap), kwargs |-> kw]

RECURSIVE parse_kwargs(_, _, _)

\* for item_name, element in self.elements: bind from item_value, which
\* the members consume
RECURSIVE bind_members(_, _, _)
bind_members(pairs, item_value, subresult) ==
    IF pairs = <<>> THEN [result |-> Dict(subresult), kwargs |-> item_value]
    ELSE LET r == parse_kwargs(Head(pairs).elm, item_value, Head(pairs).name)
         IN  bind_members(Tail(pairs), r.kwargs,
                 IF r.result # PyNone THEN Update(subresult, r.result.d) ELSE subresult)

\* the items of kwargs[name] zipped with max_occurs_iter: each bound item is
\* left as its members leave it, the items past max_occurs are not touched
RECURSIVE bind_items(_, _, _, _, _)
bind_items(self, items, j, results, left) ==
    IF j > Len(items) \/ ~HasNext(self, j - 1) THEN [results |-> results, items |-> left]
    ELSE LET r == bind_members(elements(self), items[j].d, EmptyMap)
         IN  bind_items(self, items, j + 1, Append(results, r.result),
                        [left EXCEPT ![j] = Dict(r.kwargs)])

\* Python truth of a value: None, {} and [] are false
Truthy(v) ==
    CASE v.t = "none" -> FALSE
      [] v.t = "dict" -> DOMAIN v.d # {}
      [] v.t = "list" -> v.l # <<>>
      [] OTHER -> TRUE

Indicator_parse_kwargs(self, kw, name) ==
    IF name # NoName /\ name \in DOMAIN kw
    THEN LET is_list == kw[name].t = "list"
             item_kwargs == IF is_list THEN kw[name].l ELSE <<kw[name]>>
             r == bind_items(self, item_kwargs, 1, <<>>, item_kwargs)
             res == IF accepts_multiple(self) THEN Dict(Single(name, List(r.results)))
                    ELSE IF r.results # <<>> THEN r.results[1] ELSE PyNone
         IN  [result |-> res,
              kwargs |-> IF \A j \in DOMAIN r.items : ~Truthy(r.items[j])
                         THEN Without(kw, name)
                         ELSE [kw EXCEPT ![name] =
                                  IF is_list THEN List(r.items) ELSE r.items[1]]]
    ELSE LET r == bind_members(elements(self), kw, EmptyMap)
         IN  [result |-> IF name # NoName THEN Dict(Single(name, r.result)) ELSE r.result,
              kwargs |-> r.kwargs]

\* the occurrences of a Group that accepts multiple: empty results are dropped
RECURSIVE group_items(_, _, _, _)
group_items(self, items, j, results) ==
    IF j > Len(items) \/ ~HasNext(self, j - 1) THEN results
    ELSE LET sub_name == IF accepts_multiple(self.children[1]) THEN "_value_1" ELSE NoName
             r == parse_kwargs(self.children[1], items[j].d, sub_name)
         IN  group_items(self, items, j + 1,
                         IF Truthy(r.result) THEN Append(results, r.result) ELSE results)

Group_parse_kwargs(self, kw, name) ==
    IF accepts_multiple(self)
    THEN IF name \notin DOMAIN kw THEN [result |-> Dict(EmptyMap), kwargs |-> kw]
         ELSE LET results == group_items(self, kw[name].l, 1, <<>>)
              IN  [result |-> IF results # <<>> THEN Dict(Single(name, List(results)))
                              ELSE List(<<>>),
                   kwargs |-> Without(kw, name)]
    ELSE parse_kwargs(self.children[1], kw, name)

\* The members of the nodes bound here are Elements, Sequences, Alls and
\* Groups; a Choice is bound by Choice_parse_kwargs below.
parse_kwargs(self, kw, name) ==
    CASE self.kind = "Element" -> Element_parse_kwargs(self, kw, name)
      [] self.kind \in {"Sequence", "All"} -> Indicator_parse_kwargs(self, kw, name)
      [] self.kind = "Group" -> Group_parse_kwargs(self, kw, name)

(***************************************************************************)
(* Rendering: a render operator returns the elements it appends to parent. *)
(***************************************************************************)
\* Element.render: one element per value; None renders nothing for an
\* optional element and an empty element otherwise
Element_render_item(elm, value) ==
    IF value = PyNone
    THEN IF is_optional(elm) THEN <<>> ELSE <<Xml(elm.name, PyNone)>>
    ELSE <<Xml(elm.name, value)>>

RECURSIVE Element_render_items(_, _)
Element_render_items(elm, vals) ==
    IF vals = <<>> THEN <<>>
    ELSE Element_render_item(elm, Head(vals)) \o Element_render_items(elm, Tail(vals))

Element_render(elm, value) ==
    IF accepts_multiple(elm) /\ value.t = "list" THEN Element_render_items(elm, value.l)
    ELSE Element_render_item(elm, value)

RECURSIVE render(_, _)

\* value.get(name)
Get(value, name) == IF value.t = "dict" /\ name \in DOMAIN value.d THEN value.d[name] ELSE PyNone

RECURSIVE render_members(_, _)
render_members(pairs, value) ==
    IF pairs = <<>> THEN <<>>
    ELSE LET element == Head(pairs).elm
             element_value == IF Head(pairs).name # NoName THEN Get(value, Head(pairs).name)
                              ELSE value
         IN  (IF element_value # PyNone \/ ~is_optional(element)
              THEN render(element, element_value) ELSE <<>>)
             \o render_members(Tail(pairs), value)

RECURSIVE render_values(_, _, _)
render_values(self, values, j) ==
    IF j > Len(values) \/ ~HasNext(self, j - 1) THEN <<>>
    ELSE render_members(elements_nested(self), values[j]) \o render_values(self, values, j + 1)

Indicator_render(self, value) ==
    render_values(self, IF value.t = "list" THEN value.l ELSE <<value>>, 1)

render(self, value) ==
    CASE self.kind = "Element" -> Element_render(self, value)
      [] self.kind \in {"Sequence", "All"} -> Indicator_render(self, value)
      [] self.kind = "Group" -> render(self.children[1], value)

(***************************************************************************)
(* Specification of the round trip parse_kwargs, render, parse_xmlelements *)
(* on Sequence and All content.                                            *)
(***************************************************************************)
RoundLeaves == {Element("x", 1, 1), Element("y", 0, 1), Element("w", 0, 2)}

RoundMembers ==
    RoundLeaves \cup {Sequence(<<Element("z", 0, 1)>>, 1, 1),
                      Sequence(<<Element("z", 1, 1)>>, 1, 2)}

RoundTops ==
    {Sequence(b, 1, m) : b \in NonEmptySeqsUpTo(RoundMembers, MaxChildren), m \in {1, 2}}
    \cup {All(b, 1, 1) : b \in NonEmptySeqsUpTo(RoundLeaves, MaxChildren)}

\* The mappings a caller can supply for a node: any subset of its slots,
\* each with a value of the slot's shape
RECURSIVE ItemsFor(_)
SlotValues(elm) ==
    IF elm.kind = "Element"
    THEN IF accepts_multiple(elm)
         THEN {List(<<Leaf(1)>>), List(<<Leaf(1), Leaf(2)>>)}
         ELSE {Leaf(1)}
    ELSE {List(l) : l \in NonEmptySeqsUpTo(ItemsFor(elm), MaxItems)}

ItemsFor(self) ==
    LET slots == elements(self)
        opts(n) == UNION {SlotValues(slots[j].elm) : j \in {i \in DOMAIN slots : slots[i].name = n}}
        every == UNION {opts(n) : n \in Names(slots)}
    IN  UNION {{Dict(f) : f \in {g \in [K -> every] : \A k \in K : g[k] \in opts(k)}} :
                  K \in SUBSET Names(slots)}

RoundKwargs(self) ==
    IF accepts_multiple(self)
    THEN {Single("_value_1", List(l)) : l \in NonEmptySeqsUpTo(ItemsFor(self), MaxItems)}
    ELSE {i.d : i \in ItemsFor(self)}

InitRound ==
    /\ node \in RoundTops
    /\ kwargs \in RoundKwargs(node)
    /\ xmlelements = <<>>
    /\ permuted = <<>>
    /\ input0 = <<>>
    /\ result = PyNone
    /\ pc = "start"
    /\ occ = 0
    /\ bound = PyNone

\* parse_kwargs(kwargs, name): bound is the bound value
Bind ==
    /\ pc = "start"
    /\ LET r == parse_kwargs(node, kwargs, TopName(node))
       IN  /\ bound' = r.result
           /\ kwargs' = r.kwargs
    /\ pc' = "bound"
    /\ UNCHANGED <<node, xmlelements, permuted, result, occ, input0>>

\* render(parent, value) on an empty parent: the caller hands a node that
\* accepts multiple the list bound under its name
Render ==
    /\ pc = "bound"
    /\ xmlelements' = render(node, IF accepts_multiple(node) THEN Get(bound, TopName(node))
                                   ELSE bound)
    /\ input0' = xmlelements'
    /\ pc' = "rendered"
    /\ UNCHANGED <<node, permuted, kwargs, bound, result, occ>>

\* parse_xmlelements on the rendered elements
Reparse ==
    /\ pc = "rendered"
    /\ LET r == parse_xmlelements(node, xmlelements, TopName(node))
       IN  /\ result' = r.value
           /\ xmlelements' = r.rest
    /\ pc' = "reparsed"
    /\ UNCHANGED <<node, permuted, kwargs, bound, occ, input0>>

NextRound == Bind \/ Render \/ Reparse

SpecRound == InitRound /\ [][NextRound]_vars

\* Two structured values are equivalent when they map the same slot names
\* to the same leaf values; a slot holding None counts as an absent slot.
RECURSIVE Strip(_)
Strip(v) ==
    CASE v.t = "dict" ->
            Dict([k \in {x \in DOMAIN v.d : v.d[x] # PyNone} |-> Strip(v.d[k])])
      [] v.t = "list" -> List([j \in DOMAIN v.l |-> Strip(v.l[j])])
      [] OTHER -> v

Equivalent(a, b) == Strip(a) = Strip(b)

\* the bound value held every required leaf: no empty element was rendered
RenderedComplete == \A j \in DOMAIN input0 : input0[j].val # PyNone

\* C5: for Sequence and All content without Choice, the value bound with
\* parse_kwargs, rendered and parsed again is equivalent to the bound value.
C5_RoundTrip ==
    (pc = "reparsed" /\ RenderedComplete) => Equivalent(bound, result)

(***************************************************************************)
(* Signatures, for the error a Choice raises.                              *)
(***************************************************************************)
RECURSIVE Join(_, _)
Join(parts, sep) ==
    IF parts = <<>> THEN ""
    ELSE IF Len(parts) = 1 THEN parts[1]
    ELSE parts[1] \o sep \o Join(Tail(parts), sep)

\* Element.signature: the name of the element's type
Element_signature(elm) == "type"

RECURSIVE signature(_)

Indicator_signature(self) ==
    LET pairs == elements_nested(self)
        part == Join([j \in DOMAIN pairs |->
                        IF pairs[j].name # NoName
                        THEN pairs[j].name \o ": " \o signature(pairs[j].elm)
                        ELSE IF IsIndicator(pairs[j].elm) THEN signature(pairs[j].elm)
                        ELSE "None: " \o signature(pairs[j].elm)], ", ")
    IN  IF accepts_multiple(self) THEN "[" \o part \o "]" ELSE part

Choice_signature(self) ==
    LET pairs == elements_nested(self)
        part == "(" \o Join([j \in DOMAIN pairs |->
                        IF IsIndicator(pairs[j].elm)
                        THEN "{" \o signature(pairs[j].elm) \o "}"
                        ELSE "{" \o pairs[j].name \o ": " \o signature(pairs[j].elm) \o "}"],
                     " | ") \o ")"
    IN  IF accepts_multiple(self) THEN part \o "[]" ELSE part

signature(self) ==
    CASE self.kind = "Choice" -> Choice_signature(self)
      [] self.kind \in {"Sequence", "All"} -> Indicator_signature(self)
      [] self.kind = "Group" -> ""
      [] OTHER -> Element_signature(self)

(***************************************************************************)
(* Choice.parse_kwargs returns [raised, result, kwargs, signature]: raised *)
(* when the TypeError is raised, which carries the signature.              *)
(***************************************************************************)
\* what a member takes from a supplied item: [found, value]
member_match(element, item, name) ==
    IF IsIndicator(element)
    THEN LET choice_value == IF name \in DOMAIN item.d THEN item.d[name] ELSE item
         IN  [found |-> accept(element, choice_value.d), value |-> choice_value]
    ELSE IF element.name \in DOMAIN item.d
         THEN [found |-> TRUE, value |-> Dict(Single(element.name, item.d[element.name]))]
         ELSE [found |-> FALSE, value |-> PyNone]

\* a scan that keeps the last matching member instead of the first
RECURSIVE scan_members_last(_, _, _)
scan_members_last(members, item, name) ==
    IF members = <<>> THEN [found |-> FALSE, value |-> PyNone]
    ELSE LET m == member_match(members[Len(members)], item, name)
         IN  IF m.found THEN m
             ELSE scan_members_last(SubSeq(members, 1, Len(members) - 1), item, name)

\* for element in self: ... break, else: raise
RECURSIVE scan_members(_, _, _)
scan_members(members, item, name) ==
    IF members = <<>> THEN [found |-> FALSE, value |-> PyNone]
    ELSE LET m == member_match(Head(members), item, name)
         IN  IF m.found THEN m ELSE scan_members(Tail(members), item, name)

\* for value in values: the values chosen, up to the first item no member
\* matches
RECURSIVE scan_values(_, _, _, _)
scan_values(self, values, name, chosen) ==
    IF values = <<>> THEN [raised |-> FALSE, chosen |-> chosen]
    ELSE LET m == scan_members(self.children, Head(values), name)
         IN  IF m.found THEN scan_values(self, Tail(values), name, Append(chosen, m.value))
             ELSE [raised |-> TRUE, chosen |-> chosen]

\* for choice in self: the first member whose parse_kwargs binds something
RECURSIVE try_members(_, _)
try_members(members, kw) ==
    IF members = <<>> THEN [result |-> Dict(EmptyMap), kwargs |-> kw]
    ELSE LET r == parse_kwargs(Head(members), kw, NoName)
         IN  IF Truthy(r.result) THEN r ELSE try_members(Tail(members), r.kwargs)

Named(name, v) == IF name # NoName THEN Dict(Single(name, v)) ELSE v

Choice_parse_kwargs(self, kw, name) ==
    IF name # NoName /\ name \in DOMAIN kw
    THEN LET values == IF kw[name].t = "dict" THEN <<kw[name]>> ELSE kw[name].l
             r == scan_values(self, values, name, <<>>)
         IN  IF r.raised
             THEN [raised |-> TRUE, result |-> PyNone, kwargs |-> kw,
                   signature |-> signature(self)]
             ELSE [raised |-> FALSE,
                   result |-> Named(name, IF accepts_multiple(self) THEN List(r.chosen)
                                          ELSE IF r.chosen # <<>> THEN r.chosen[1] ELSE PyNone),
                   kwargs |-> Without(kw, name), signature |-> ""]
    ELSE IF accepts_multiple(self)
         THEN [raised |-> FALSE, result |-> Dict(EmptyMap), kwargs |-> kw, signature |-> ""]
         ELSE LET r == try_members(self.children, kw)
              IN  [raised |-> FALSE, result |-> Named(name, r.result), kwargs |-> r.kwargs,
                   signature |-> ""]

(***************************************************************************)
(* Specification of Choice.parse_kwargs.                                   *)
(***************************************************************************)
ElmA == Element("a", 1, 1)
ElmB == Element("b", 0, 1)

ChoiceMembers ==
    {ElmA, ElmB,
     Sequence(<<ElmA, ElmB>>, 1, 1),
     Sequence(<<Element("c", 1, 1)>>, 1, 1),
     Sequence(<<Element("c", 0, 1)>>, 1, 1)}

ChoiceTops ==
    {Choice(b, 1, m) : b \in NonEmptySeqsUpTo(ChoiceMembers, MaxChildren), m \in {1, 2}}

ChoiceName == "_value_1"

ChoiceItems ==
    {Dict(f) : f \in UNION {[K -> {Leaf(1)}] : K \in SUBSET {"a", "b", "c"}}}
    \cup {Dict(Single(ChoiceName, Dict(Single(k, Leaf(1))))) : k \in {"a", "c"}}

ChoiceKwargs ==
    {Single(ChoiceName, i) : i \in ChoiceItems}
    \cup {Single(ChoiceName, List(l)) : l \in SeqsUpTo(ChoiceItems, MaxItems)}
    \cup {f \in UNION {[K -> {Leaf(1)}] : K \in SUBSET {"a", "b", "c"}} : TRUE}

InitChoiceBind ==
    /\ node \in ChoiceTops
    /\ kwargs \in ChoiceKwargs
    /\ xmlelements = <<>>
    /\ permuted = <<>>
    /\ input0 = <<>>
    /\ result = PyNone
    /\ pc = "start"
    /\ occ = 0
    /\ bound = PyNone

\* parse_kwargs(kwargs, name) on the Choice: it works on a copy of kwargs,
\* the caller's mapping stays as it is
ChoiceBind ==
    /\ pc = "start"
    /\ result' = Choice_parse_kwargs(node, kwargs, ChoiceName)
    /\ pc' = "bound"
    /\ UNCHANGED <<node, xmlelements, permuted, kwargs, bound, occ, input0>>

NextChoiceBind == ChoiceBind

SpecChoiceBind == InitChoiceBind /\ [][NextChoiceBind]_vars

\* The supplied items of the wrapped mode
Supplied == IF kwargs[ChoiceName].t = "dict" THEN <<kwargs[ChoiceName]>> ELSE kwargs[ChoiceName].l

\* member j matches the item: a leaf whose name is a key of the item, or a
\* container that accepts it
Matches(j, item) ==
    LET m == node.children[j]
    IN  IF IsIndicator(m)
        THEN accept(m, IF ChoiceName \in DOMAIN item.d THEN item.d[ChoiceName].d ELSE item.d)
        ELSE m.name \in DOMAIN item.d

FirstMatching(item) ==
    CHOOSE j \in DOMAIN node.children :
        Matches(j, item) /\ \A k \in 1..(j - 1) : ~Matches(k, item)

TakenBy(j, item) ==
    LET m == node.children[j]
    IN  IF IsIndicator(m)
        THEN IF ChoiceName \in DOMAIN item.d THEN item.d[ChoiceName] ELSE item
        ELSE Dict(Single(m.name, item.d[m.name]))

\* C8: in wrapped mode each supplied item is given to the first member, in
\* declaration order, that matches it; when some item matches no member the
\* call raises the error, which carries the signature of the Choice, and
\* returns no result.
C8_WrappedFirstMatchOrError ==
    (pc = "bound" /\ ChoiceName \in DOMAIN kwargs) =>
        LET unmatched == \E i \in DOMAIN Supplied :
                            \A j \in DOMAIN node.children : ~Matches(j, Supplied[i])
            taken == [i \in DOMAIN Supplied |->
                         TakenBy(FirstMatching(Supplied[i]), Supplied[i])]
        IN  /\ result.raised <=> unmatched
            /\ result.raised => result.signature = Choice_signature(node) /\ result.result = PyNone
            /\ ~result.raised =>
                  result.result = Dict(Single(ChoiceName,
                      IF accepts_multiple(node) THEN List(taken)
                      ELSE IF taken # <<>> THEN taken[1] ELSE PyNone))

\* a Choice of the leaves a, b was given an item with neither a nor b under
\* the wrapped name, and raised
C8_Witness ==
    /\ pc = "bound"
    /\ node = Choice(<<ElmA, ElmB>>, 1, 1)
    /\ kwargs = Single(ChoiceName, Dict(Single("c", Leaf(1))))
    /\ result.raised
    /\ result.signature = "({a: type} | {b: type})"

====
